---- MODULE Spec2Model ----
(***************************************************************************)
(* Model of the wipe daemon (maintc/wipe-cli): the calendar refresh        *)
(* (Scheduler.UpdateEvents), the minute-bucket scheduler (scheduleJobs     *)
(* and the gocron timer task), the batch executor (ExecuteEventBatch,      *)
(* SyncServers, syncServer) and the branch installer (InstallRustBranch).  *)
(*                                                                         *)
(* Time.  Calendar times are whole seconds; the clock (time.Now) has        *)
(* nanosecond resolution and never stands exactly on a whole second when    *)
(* it is read.  Times are counted in half seconds: calendar times are even, *)
(* clock readings are odd, and comparisons are the plain Before / After of  *)
(* the code.                                                               *)
(***************************************************************************)
EXTENDS Integers, Sequences, FiniteSets, TLC

\* ------------------------------------------------------------------ bounds
SecondsPerMinute == 2      \* scaled length of time.Minute, in seconds
MaxTicks == 2              \* the clock advances this many seconds
MaxCandidates == 2         \* candidate events one refresh can fetch

Minute == 2 * SecondsPerMinute          \* time.Minute in half seconds
Lookahead == Minute                     \* lookaheadHours * time.Hour, scaled
MaxNow == 1 + 2 * MaxTicks

\* ------------------------------------------------------------ configuration
Servers == {"s1", "s2"}                 \* config.Server, identified by Path
Types == {"restart", "wipe"}            \* calendar.EventType
Zones == {"Z", "+01:00"}                \* offsets a DTSTART can carry
UTCOnly == {"Z"}

\* the event types each server's calendar carries
CalendarTypes == [s \in Servers |-> IF s = "s1" THEN Types ELSE {"restart"}]

ServerBranch == [s \in Servers |-> IF s = "s1" THEN "main" ELSE ""]

SrvIdx(s) == IF s = "s1" THEN 0 ELSE 1
TypeIdx(ty) == IF ty = "restart" THEN 0 ELSE 1
ZoneIdx(z) == IF z = "Z" THEN 0 ELSE 1

\* ------------------------------------------------------------------- state
VARIABLES
    now,            \* time.Now(), odd
    upc,            \* UpdateEvents: "idle" | "fetching" (s.mutex held)
    fetchNow,       \* the clock GetUpcomingEvents read in the running update
    events,         \* Scheduler.events
    scheduledJobs,  \* Scheduler.scheduledJobs: time key -> job ID
    jobEvents,      \* Scheduler.jobEvents: time key -> event list
    executingJobs,  \* Scheduler.executingJobs, the keys mapped to true
    timers,         \* gocron: armed one-time jobs, job ID -> time key
    task,           \* running timer tasks: time key -> locals
    preFire,        \* history: key -> its group in the last timeline
                    \* reconciled at or before the key's fire time
    changed,        \* history: keys whose list was replaced by one of other servers
    rcIn, rcOut,    \* resolveConflicts: argument and result
    installingBranches, \* steamcmd.installingBranches, the branches mapped to true
    branchLocks,    \* steamcmd.branchLocks: branch -> holder of the write lock
    installMutex,   \* steamcmd.installMutex: its holder
    inst,           \* the callers of the install functions: caller -> locals
    rustTree,       \* /opt/rust/<branch>: "none" | "complete" | "broken"
    carbonInstallingBranches,   \* carbon's installingBranches, the keys mapped to true
    carbonBranchLocks,          \* carbon's branchLocks: branch -> "free" | holder
    carbonTree,     \* /opt/carbon/<branch>: "none" | "complete" | "broken"
    upstream,       \* what the calendars hold: the events of all servers
    refresh,        \* history: the last refresh and what it found
    config,         \* Daemon.config: NilConfig or the config loaded last
    lastUpdate,     \* Daemon.lastUpdate: 0 is the zero time
    clock,          \* time.Now() of the daemon, in seconds
    ctx,            \* the context of Run: "live" | "cancelled"
    configTicker,   \* configTicker.C holds a tick
    updateCheckTicker,  \* updateCheckTicker.C holds a tick
    run,            \* Daemon.Run: where the supervisor goroutine is
    mapGenInProgress,   \* Daemon.mapGenInProgress
    mapPrep,        \* the prepareWipeMaps goroutines: goroutine -> where it is
    lastTick,       \* history: what the last config tick found and decided
    scheduler,      \* Daemon.scheduler: nil or the settings scheduler.New was given
    arg, res        \* a function called on its own: its arguments and its result

schedVars == <<now, upc, fetchNow, events, scheduledJobs, jobEvents,
               executingJobs, timers, preFire, changed>>
resolveVars == <<rcIn, rcOut>>
rustVars == <<installingBranches, branchLocks, installMutex, rustTree>>
carbonVars == <<carbonInstallingBranches, carbonBranchLocks, carbonTree>>
instVars == <<rustVars, carbonVars, inst>>
refreshVars == <<upstream, refresh>>
daemonVars == <<config, lastUpdate, clock, ctx, configTicker, updateCheckTicker,
                run, mapGenInProgress, mapPrep, lastTick, scheduler>>
pureVars == <<arg, res>>
otherVars == <<resolveVars, instVars, refreshVars, daemonVars, pureVars>>
vars == <<schedVars, task, otherVars>>

\* ------------------------------------------------------------- time helpers
\* t.Before(u), t.After(u)
BeforeOrAt(t, u) == t <= u
Before(t, u) == t < u
After(t, u) == t > u

\* t.Truncate(time.Minute)
Truncate(t) == t - (t % Minute)

\* t.Format(time.RFC3339): seconds precision, rendered in t's own zone
Format(t, z) == <<t, z>>

\* ScheduledEvent{Server, Event{Type, StartTime}, Scheduled}
Event(s, ty, t, z) == [server |-> s, type |-> ty, time |-> t, zone |-> z]

\* event.Scheduled.Truncate(time.Minute).Format(time.RFC3339)
TimeKey(e) == Format(Truncate(e.time), e.zone)
\* timeKeys[timeKey]
ScheduleTime(k) == k[1]

\* the servers of an event list
ServersOf(evs) == {evs[i].server : i \in 1..Len(evs)}

Range(f) == {f[x] : x \in DOMAIN f}
Restrict(f, S) == [x \in S |-> f[x]]
SeqSet(q) == {q[i] : i \in 1..Len(q)}

\* ---------------------------------------------------------- calendar input
\* GetUpcomingEvents: the single events with start After(now) and
\* Before(now + lookahead)
Upcoming(n, zones) ==
    {e \in {Event(s, ty, t, z) : s \in Servers, ty \in Types,
                                  t \in {u \in (n + 1)..(n + Lookahead) : u % 2 = 0},
                                  z \in zones} :
        /\ e.type \in CalendarTypes[e.server]
        /\ After(e.time, n) /\ Before(e.time, n + Lookahead)}

Rank(e) == ((e.time * 2 + ZoneIdx(e.zone)) * 2 + TypeIdx(e.type)) * 2 + SrvIdx(e.server)

\* the candidate lists of one refresh (allEvents before resolveConflicts);
\* listed in one order each, the result of resolveConflicts not depending on it
CandidateLists(n, zones) ==
    UNION {{q \in [1..len -> Upcoming(n, zones)] :
              \A i \in 1..(len - 1) : Rank(q[i]) <= Rank(q[i + 1])} :
           len \in 0..MaxCandidates}

\* ------------------------------------------------------- resolveConflicts
\* key{serverPath, time}
ConflictKey(e) == <<e.server, Format(e.time, e.zone)>>

\* eventMap[k]
ConflictGroup(cands, k) == SelectSeq(cands, LAMBDA e : ConflictKey(e) = k)

\* one group: the only event, else the first wipe, else the first event
ResolveGroupFirst(group) == group[1]
ResolveGroup(group) ==
    IF Len(group) = 1 THEN group[1]
    ELSE IF \E i \in 1..Len(group) : group[i].type = "wipe"
         THEN group[CHOOSE i \in 1..Len(group) :
                      /\ group[i].type = "wipe"
                      /\ \A j \in 1..(i - 1) : group[j].type # "wipe"]
         ELSE group[1]

\* the events of resolved, one per group (map iteration order is not fixed)
resolveConflicts(cands) ==
    {ResolveGroup(ConflictGroup(cands, k)) : k \in {ConflictKey(e) : e \in SeqSet(cands)}}

\* the orders a range over the map can list the set in
Orders(S) ==
    {q \in [1..Cardinality(S) -> S] : \A i, j \in 1..Cardinality(S) : i # j => q[i] # q[j]}

\* sort.Slice by Scheduled.Before: every order of the set that is sorted by time
SortByTime(S) ==
    {q \in Orders(S) : \A i \in 1..(Cardinality(S) - 1) : ~Before(q[i + 1].time, q[i].time)}

ClockValues == {n \in 1..MaxNow : n % 2 = 1}

\* what one refresh can make of the calendars: fetch, resolveConflicts, sort
Timelines(n, zones) ==
    UNION {SortByTime(resolveConflicts(cands)) : cands \in CandidateLists(n, zones)}
TimelinesUTC == [n \in ClockValues |-> Timelines(n, UTCOnly)]

\* ----------------------------------------------------------- scheduleJobs
\* eventGroups[timeKey]
EventGroup(evs, k) == SelectSeq(evs, LAMBDA e : TimeKey(e) = k)
\* currentTimeKeys
CurrentTimeKeys(evs) == {TimeKey(e) : e \in SeqSet(evs)}

KeyRank(k) == k[1] * 2 + ZoneIdx(k[2])

\* job.ID(): an ID no tracked job has
FreshID(jobs) == CHOOSE id \in 1..(Cardinality(DOMAIN jobs) + 1) : id \notin Range(jobs)

\* "Skip events in the past"
SkipPastNever(k, n) == FALSE
SkipPast(k, n) == Before(ScheduleTime(k), n)

\* "Check if job already scheduled"
JobExistsNever(jobs, k) == FALSE
JobExists(jobs, k) == k \in DOMAIN jobs

\* "Job exists - UPDATE the event list"
UpdateEventListKeepOld(jevs, k, group) == jevs
UpdateEventList(jevs, k, group) == (k :> group) @@ jevs

\* gocron.NewJob with OneTimeJobStartDateTime: refused for a start in the past
NewJobFails(k, n) == ~After(ScheduleTime(k), n)

\* the update/create loop over eventGroups; st = [jobs, jevs, calls, err]
RECURSIVE ScheduleLoop(_, _, _, _)
ScheduleLoop(todo, evs, n, st) ==
    IF todo = {} \/ st.err THEN st
    ELSE LET k == CHOOSE x \in todo : \A y \in todo : KeyRank(x) <= KeyRank(y)
             group == EventGroup(evs, k)
         IN  IF SkipPast(k, n) THEN ScheduleLoop(todo \ {k}, evs, n, st)
             ELSE IF JobExists(st.jobs, k)
             THEN ScheduleLoop(todo \ {k}, evs, n,
                               [st EXCEPT !.jevs = UpdateEventList(st.jevs, k, group)])
             ELSE IF NewJobFails(k, n)
             THEN [st EXCEPT !.jevs = (k :> group) @@ st.jevs, !.err = TRUE]
             ELSE LET id == FreshID(st.jobs)
                  IN  ScheduleLoop(todo \ {k}, evs, n,
                                   [st EXCEPT !.jevs = (k :> group) @@ st.jevs,
                                              !.jobs = (k :> id) @@ st.jobs,
                                              !.calls = @ \cup {<<"NewJob", k, id>>}])

\* "Never cancel a job that's in progress"
KeepExecutingNever(k, executing) == FALSE
KeepExecutingAlways(k, executing) == TRUE
KeepExecuting(k, executing) == k \in executing

\* the cancel loop over scheduledJobs
CancelLoop(evs, executing, st) ==
    LET gone == {k \in DOMAIN st.jobs :
                    k \notin CurrentTimeKeys(evs) /\ ~KeepExecuting(k, executing)}
    IN  [jobs |-> Restrict(st.jobs, DOMAIN st.jobs \ gone),
         jevs |-> Restrict(st.jevs, DOMAIN st.jevs \ gone),
         calls |-> st.calls \cup {<<"RemoveJob", k, st.jobs[k]>> : k \in gone},
         err |-> FALSE]

scheduleJobs(evs, n, jobs, jevs, executing) ==
    LET st == ScheduleLoop(CurrentTimeKeys(evs), evs, n,
                           [jobs |-> jobs, jevs |-> jevs, calls |-> {}, err |-> FALSE])
    IN  IF st.err THEN st ELSE CancelLoop(evs, executing, st)

\* -------------------------------------------------------------------- Init
Branches == {"main", "staging"}         \* the branch arguments of installs
Installers == {"i1", "i2"}              \* goroutines that call InstallRustBranch

\* a goroutine that has called no install function yet
NoCall == [pc |-> "idle", fn |-> "none", branch |-> "none", last |-> "none", sentError |-> FALSE]

\* nothing is being installed and the trees of all branches are installed
InstallIdle ==
    /\ installingBranches = {}
    /\ branchLocks = [b \in Branches |-> "free"]
    /\ installMutex = "free"
    /\ inst = [i \in Installers |-> NoCall]
    /\ carbonInstallingBranches = {}
    /\ carbonBranchLocks = [b \in Branches |-> "free"]
    /\ rustTree = [b \in Branches |-> "complete"]
    /\ carbonTree = [b \in Branches |-> "complete"]

ResolveIdle ==
    /\ rcIn = <<>>
    /\ rcOut = [done |-> FALSE, resolved |-> <<>>]

\* NewScheduler: empty maps, no job
SchedulerIdle ==
    /\ now = 1
    /\ upc = "idle"
    /\ fetchNow = 1
    /\ events = <<>>
    /\ scheduledJobs = <<>>
    /\ jobEvents = <<>>
    /\ executingJobs = {}
    /\ timers = <<>>
    /\ task = <<>>
    /\ preFire = <<>>
    /\ changed = {}

\* no refresh yet
NoRefresh ==
    [count |-> 0, at |-> 0, servers |-> Servers, failed |-> {}, cands |-> <<>>, added |-> {}, removed |-> {},
     sameKeys |-> FALSE, repeated |-> FALSE]

\* Daemon.New(): no config, the zero lastUpdate, Run not yet called
NoTick == "none"
\* d.config before the first load
NilConfig == [nil |-> TRUE]
\* d.scheduler before scheduler.New
NilScheduler == [nil |-> TRUE]
MapGoroutines == {"g1", "g2"}           \* the prepareWipeMaps goroutines alive together
DaemonIdle ==
    /\ config = NilConfig
    /\ lastUpdate = 0
    /\ clock = 1
    /\ ctx = "live"
    /\ configTicker = FALSE
    /\ updateCheckTicker = FALSE
    /\ run = "new"
    /\ mapGenInProgress = FALSE
    /\ mapPrep = [g \in MapGoroutines |-> "none"]
    /\ lastTick = NoTick
    /\ scheduler = NilScheduler

\* no function has been called on its own
NoArg == [fn |-> "none"]
PureIdle == arg = NoArg /\ res = NoArg

RefreshIdle ==
    /\ upstream = <<>>
    /\ refresh = NoRefresh

Init == SchedulerIdle /\ ResolveIdle /\ InstallIdle /\ RefreshIdle /\ DaemonIdle /\ PureIdle

\* ------------------------------------------------------------ UpdateEvents
\* s.mutex.Lock(); the calendars are fetched and filtered against time.Now()
UpdateBegin ==
    /\ upc = "idle"
    /\ upc' = "fetching"
    /\ fetchNow' = now
    /\ UNCHANGED <<now, events, scheduledJobs, jobEvents, executingJobs, timers,
                   task, preFire, changed, otherVars>>

NewJobCalls(st) == {c \in st.calls : c[1] = "NewJob"}
RemoveJobCallsNone(st) == {}
RemoveJobCalls(st) == {c \in st.calls : c[1] = "RemoveJob"}

\* gocron after the calls of one scheduleJobs
TimersAfter(tm, st) ==
    [id \in (DOMAIN tm \ {c[3] : c \in RemoveJobCalls(st)}) \cup {c[3] : c \in NewJobCalls(st)} |->
        IF \E c \in NewJobCalls(st) : c[3] = id
        THEN (CHOOSE c \in NewJobCalls(st) : c[3] = id)[2]
        ELSE tm[id]]

\* s.events = allEvents; scheduleJobs(); s.mutex.Unlock()
Reconcile(allEvents) ==
    /\ LET st == scheduleJobs(allEvents, now, scheduledJobs, jobEvents, executingJobs)
           stored == {k \in CurrentTimeKeys(allEvents) : ~Before(ScheduleTime(k), now)}
           live == DOMAIN st.jobs \cup DOMAIN task
       IN  /\ events' = allEvents
           /\ scheduledJobs' = st.jobs
           /\ jobEvents' = st.jevs
           /\ timers' = TimersAfter(timers, st)
           /\ preFire' = [k \in (DOMAIN preFire \cup stored) \cap live |->
                            IF k \in stored THEN EventGroup(allEvents, k) ELSE preFire[k]]
           /\ changed' = (changed \cup {k \in DOMAIN jobEvents \cap DOMAIN st.jevs :
                                           ServersOf(jobEvents[k]) # ServersOf(st.jevs[k])}) \cap live
    /\ upc' = "idle"
    /\ UNCHANGED <<now, fetchNow, executingJobs, task>>

\* resolveConflicts; sort; s.events = allEvents; scheduleJobs(); s.mutex.Unlock()
UpdateFinish(timelines) ==
    /\ upc = "fetching"
    /\ \E allEvents \in timelines[fetchNow] : Reconcile(allEvents)
    /\ UNCHANGED otherVars

\* ------------------------------------------------------------------- clock
\* time passes; a timer that is due fires before the clock moves on
Tick ==
    /\ now + 2 <= MaxNow
    /\ \A id \in DOMAIN timers : After(ScheduleTime(timers[id]), now)
    /\ now' = now + 2
    /\ UNCHANGED <<upc, fetchNow, events, scheduledJobs, jobEvents, executingJobs,
                   timers, task, preFire, changed, otherVars>>

\* ---------------------------------------------------------- the timer task
NewTask ==
    [pc |-> "fired", snap |-> <<>>, workers |-> <<>>, syncErr |-> {}, trace |-> <<>>,
     result |-> "none", due |-> FALSE]

\* history: the bucket held a non-empty event list when its timer fired
DueAtFire(jevs, k) == k \in DOMAIN jevs /\ Len(jevs[k]) > 0

\* gocron.OneTimeJob: the job is run once and not scheduled again
RecurringJob(tm, id) == tm
OneTimeJob(tm, id) == Restrict(tm, DOMAIN tm \ {id})

\* gocron starts the task of a one-time job whose start time has come
TimerFire(id) ==
    /\ id \in DOMAIN timers
    /\ ~After(ScheduleTime(timers[id]), now)
    /\ timers[id] \notin DOMAIN task
    /\ timers' = OneTimeJob(timers, id)
    /\ task' = (timers[id] :> [NewTask EXCEPT !.due = DueAtFire(jobEvents, timers[id])]) @@ task
    /\ UNCHANGED <<now, upc, fetchNow, events, scheduledJobs, jobEvents, executingJobs,
                   preFire, changed, otherVars>>

\* s.mutex.Lock(); s.executingJobs[tk] = true; currentEvents, exists :=
\* s.jobEvents[tk]; s.mutex.Unlock(); "No events found ... skipping"
TaskMark(k) ==
    /\ k \in DOMAIN task
    /\ task[k].pc = "fired"
    /\ upc = "idle"
    /\ executingJobs' = executingJobs \cup {k}
    /\ LET currentEvents == IF k \in DOMAIN jobEvents THEN jobEvents[k] ELSE <<>>
       IN  task' = [task EXCEPT ![k] = [@ EXCEPT !.snap = currentEvents,
                                                 !.pc = IF Len(currentEvents) = 0
                                                        THEN "clear" ELSE "delay"]]
    /\ UNCHANGED <<now, upc, fetchNow, events, scheduledJobs, jobEvents, timers,
                   preFire, changed, otherVars>>

\* executeEventGroupInternal(currentEvents): the batch runs and returns
executeEventGroupInternal(k) ==
    /\ k \in DOMAIN task
    /\ task[k].pc = "delay"
    /\ \E r \in {"ok", "err"} :
          task' = [task EXCEPT ![k] = [@ EXCEPT !.pc = "clear", !.result = r]]
    /\ UNCHANGED <<schedVars, otherVars>>

\* delete(s.executingJobs, tk)
ClearMarkNever(executing, k) == executing
ClearMark(executing, k) == executing \ {k}

\* the deferred s.mutex.Lock(); delete(s.executingJobs, tk); s.mutex.Unlock()
TaskClear(k) ==
    /\ k \in DOMAIN task
    /\ task[k].pc = "clear"
    /\ upc = "idle"
    /\ executingJobs' = ClearMark(executingJobs, k)
    /\ task' = Restrict(task, DOMAIN task \ {k})
    /\ preFire' = Restrict(preFire, DOMAIN preFire \cap (DOMAIN scheduledJobs \cup (DOMAIN task \ {k})))
    /\ changed' = changed \cap (DOMAIN scheduledJobs \cup (DOMAIN task \ {k}))
    /\ UNCHANGED <<now, upc, fetchNow, events, scheduledJobs, jobEvents, timers, otherVars>>

Next ==
    \/ UpdateBegin
    \/ UpdateFinish(TimelinesUTC)
    \/ Tick
    \/ \E id \in DOMAIN timers : TimerFire(id)
    \/ \E k \in DOMAIN task : TaskMark(k)
    \/ \E k \in DOMAIN task : executeEventGroupInternal(k)
    \/ \E k \in DOMAIN task : TaskClear(k)

Spec == Init /\ [][Next]_vars

\* ------------------------------------------------------------- ZoneSpec
\* the scheduler fed by calendars whose DTSTART carry different zone offsets:
\* a Z suffix in one, a TZID the location of which is loaded in the other
\* the offset each server's calendar writes its times with; calendars of restarts
CalendarZone == [s \in Servers |-> IF s = "s1" THEN "Z" ELSE "+01:00"]
ZonedLists(n) ==
    {q \in CandidateLists(n, Zones) :
        \A i \in 1..Len(q) : q[i].zone = CalendarZone[q[i].server] /\ q[i].type = "restart"}
TimelinesZoned ==
    [n \in ClockValues |-> UNION {SortByTime(resolveConflicts(cands)) : cands \in ZonedLists(n)}]

ZoneNext ==
    \/ UpdateBegin
    \/ UpdateFinish(TimelinesZoned)
    \/ Tick
    \/ \E id \in DOMAIN timers : TimerFire(id)
    \/ \E k \in DOMAIN task : TaskMark(k)
    \/ \E k \in DOMAIN task : executeEventGroupInternal(k)
    \/ \E k \in DOMAIN task : TaskClear(k)

ZoneSpec == Init /\ [][ZoneNext]_vars

\* ------------------------------------------- the batch executor, step by step
\* serverPaths
Paths(evs) == [i \in 1..Len(evs) |-> evs[i].server]
\* wipeServers
WipeServers(evs) == {evs[i].server : i \in {j \in 1..Len(evs) : evs[j].type = "wipe"}}

\* a script run: exit 0, exit non-zero, or the script file is not there
ScriptOutcomes == {"ok", "failed", "missing"}
HookOutcomes == {"ok", "failed"}

\* the trace after a script call; with outcome "missing" the script was not run
Ran(trace, script, paths, out) == Append(trace, <<script, paths, out>>)

\* discord.SendError(..., "Batch Event Failed", ...); return fmt.Errorf(...)
AbortSilent(t, trace) == [t EXCEPT !.trace = trace, !.result = "err", !.pc = "clear"]
Abort(t, trace) ==
    [t EXCEPT !.trace = Append(trace, <<"SendError", "Batch Event Failed", "ok">>),
              !.result = "err", !.pc = "clear"]

\* the delay, then discord.SendInfo(..., "Batch Event Starting", ...)
ExecuteEventBatch(k) ==
    /\ k \in DOMAIN task
    /\ task[k].pc = "delay"
    /\ task' = [task EXCEPT ![k] =
                  [@ EXCEPT !.trace = Append(@, <<"SendInfo", "Batch Event Starting", "ok">>),
                            !.pc = "stop"]]
    /\ UNCHANGED <<schedVars, otherVars>>

\* Step 1: stopServers(serverPaths)
stopServers(k) ==
    /\ k \in DOMAIN task
    /\ task[k].pc = "stop"
    /\ \E out \in ScriptOutcomes :
          LET t == task[k]
              trace == Ran(t.trace, "stop", Paths(t.snap), out)
          IN  task' = [task EXCEPT ![k] =
                          IF out # "ok" THEN Abort(t, trace)
                          ELSE [t EXCEPT !.trace = trace, !.pc = "sync"]]
    /\ UNCHANGED <<schedVars, otherVars>>

\* Step 2: SyncServers launches one goroutine per server
SyncServers(k) ==
    /\ k \in DOMAIN task
    /\ task[k].pc = "sync"
    /\ task' = [task EXCEPT ![k] =
                  [@ EXCEPT !.workers = [j \in 1..Len(task[k].snap) |-> "started"],
                            !.pc = "syncing"]]
    /\ UNCHANGED <<schedVars, otherVars>>

\* the tree syncServer copies from: server.Branch, "main" for the empty branch
SyncBranch(s) == IF ServerBranch[s] = "" THEN "main" ELSE ServerBranch[s]

\* syncServer: the old Rust files are removed and rsync of /opt/rust/<branch> starts
syncServerBegin(k, j) ==
    /\ k \in DOMAIN task
    /\ j \in DOMAIN task[k].workers
    /\ task[k].workers[j] = "started"
    /\ task' = [task EXCEPT ![k].workers[j] = "rsyncRust"]
    /\ UNCHANGED <<schedVars, otherVars>>

\* syncServer: rsync of the Rust tree returns; on success the Carbon rsync follows
syncServerRust(k, j) ==
    /\ k \in DOMAIN task
    /\ j \in DOMAIN task[k].workers
    /\ task[k].workers[j] = "rsyncRust"
    /\ \E ok \in BOOLEAN :
          task' = [task EXCEPT ![k].workers[j] = IF ok THEN "rsyncCarbon" ELSE "failed"]
    /\ UNCHANGED <<schedVars, otherVars>>

\* syncServer: rsync of the Carbon tree returns
syncServerCarbon(k, j) ==
    /\ k \in DOMAIN task
    /\ j \in DOMAIN task[k].workers
    /\ task[k].workers[j] = "rsyncCarbon"
    /\ \E ok \in BOOLEAN :
          task' = [task EXCEPT ![k].workers[j] = IF ok THEN "done" ELSE "failed"]
    /\ UNCHANGED <<schedVars, otherVars>>

\* wg.Wait(); close(results): every worker has sent its result
AnySynced(workers) == \E j \in DOMAIN workers : workers[j] \in {"done", "failed"}
AllSynced(workers) == \A j \in DOMAIN workers : workers[j] \in {"done", "failed"}

\* len(errors) > 0
SyncFailedNever(workers) == FALSE
SyncFailed(workers) == \E j \in DOMAIN workers : workers[j] = "failed"

\* the servers the error of SyncServers names ("%s: %v" with res.server.Name
\* for every result with an error); no server: the error is nil
FailedWorkers(workers) == {j \in DOMAIN workers : workers[j] = "failed"}
SyncErrorFirst(snap, workers) ==
    IF FailedWorkers(workers) = {} THEN {}
    ELSE {snap[CHOOSE j \in FailedWorkers(workers) :
                  \A i \in FailedWorkers(workers) : j <= i].server}
SyncError(snap, workers) == {snap[j].server : j \in FailedWorkers(workers)}

\* SyncServers returns
SyncJoin(k) ==
    /\ k \in DOMAIN task
    /\ task[k].pc = "syncing"
    /\ AllSynced(task[k].workers)
    /\ LET t == [task[k] EXCEPT !.syncErr = SyncError(task[k].snap, task[k].workers)]
           trace == Append(t.trace, <<"sync", Paths(t.snap), IF SyncFailed(t.workers) THEN "failed" ELSE "ok">>)
       IN  task' = [task EXCEPT ![k] =
                       IF SyncFailed(t.workers) THEN Abort(t, trace)
                       ELSE [t EXCEPT !.trace = trace, !.pc = "wipe"]]
    /\ UNCHANGED <<schedVars, otherVars>>

\* the calls of wipeServerData, in batch order
WipeCallsAll(evs) == [i \in 1..Len(evs) |-> <<"wipe", evs[i].server, "ok">>]
WipeCalls(evs) ==
    LET w == SelectSeq(evs, LAMBDA e : e.server \in WipeServers(evs))
    IN  [i \in 1..Len(w) |-> <<"wipe", w[i].server, "ok">>]

\* Step 3: wipeServerData for the wipe servers (it always returns nil)
wipeServerData(k) ==
    /\ k \in DOMAIN task
    /\ task[k].pc = "wipe"
    /\ task' = [task EXCEPT ![k] =
                  [@ EXCEPT !.trace = @ \o WipeCalls(task[k].snap), !.pc = "hook"]]
    /\ UNCHANGED <<schedVars, otherVars>>

\* "Don't fail the entire operation if hook fails"
HookAbortsOnFailure(out) == out # "ok"
HookAborts(out) == FALSE

\* Step 4: runPreStartHook(serverPaths)
runPreStartHook(k) ==
    /\ k \in DOMAIN task
    /\ task[k].pc = "hook"
    /\ \E out \in HookOutcomes :
          LET t == task[k]
              trace == Ran(t.trace, "hook", Paths(t.snap), out)
          IN  task' = [task EXCEPT ![k] =
                          IF HookAborts(out) THEN Abort(t, trace)
                          ELSE [t EXCEPT !.trace = trace, !.pc = "start"]]
    /\ UNCHANGED <<schedVars, otherVars>>

\* Step 5: startServers(serverPaths); discord.SendSuccess(..., "Batch Event Complete", ...)
startServers(k) ==
    /\ k \in DOMAIN task
    /\ task[k].pc = "start"
    /\ \E out \in ScriptOutcomes :
          LET t == task[k]
              trace == Ran(t.trace, "start", Paths(t.snap), out)
          IN  task' = [task EXCEPT ![k] =
                          IF out # "ok" THEN Abort(t, trace)
                          ELSE [t EXCEPT !.trace = Append(trace, <<"SendSuccess", "Batch Event Complete", "ok">>),
                                         !.result = "ok", !.pc = "clear"]]
    /\ UNCHANGED <<schedVars, otherVars>>

\* ------------------------------------------------------ InstallRustBranch
\* a tree is "none" without its marker file (RustDedicated, Carbon.dll),
\* "complete" after an install that succeeded, "broken" when the marker file
\* stands in a tree an install left incomplete

\* installingBranches[branch]
AlreadyInstallingNever(installing, b) == FALSE
AlreadyInstalling(installing, b) == b \in installing

\* sync.Mutex.Lock() returns
MutexFreeAlways(m) == TRUE
MutexFree(m) == m = "free"

\* the deferred sync.Mutex.Unlock(): the mutex after the holder returned
UnlockNever(m) == m
Unlock(m) == "free"

\* the calls a goroutine can make next: any, or the install its ensure goes on to
CanCall(i, fn, b) ==
    \/ inst[i].pc = "idle"
    \/ inst[i].pc = "calling" /\ inst[i].fn = fn /\ inst[i].branch = b

\* the locals of a call after the first critical section
CallBegin(installing, fn, b) ==
    IF AlreadyInstalling(installing, b)
    THEN [pc |-> "idle", fn |-> fn, branch |-> "none", last |-> "skipped", sentError |-> FALSE]
    ELSE [pc |-> "marked", fn |-> fn, branch |-> b, last |-> "none", sentError |-> FALSE]

\* installingMutex.Lock(); "already being installed, skipping", or
\* installingBranches[branch] = true; installingMutex.Unlock()
InstallRustBranch(i, b) ==
    /\ CanCall(i, "rust", b)
    /\ inst' = [inst EXCEPT ![i] = CallBegin(installingBranches, "rust", b)]
    /\ installingBranches' = IF AlreadyInstalling(installingBranches, b)
                             THEN installingBranches
                             ELSE installingBranches \cup {b}
    /\ UNCHANGED <<schedVars, task, resolveVars, refreshVars, daemonVars, pureVars, carbonVars,
                   branchLocks, installMutex, rustTree>>

\* branchLock := getBranchLock(branch); branchLock.Lock()
InstallLockBranch(i) ==
    /\ inst[i].pc = "marked" /\ inst[i].fn = "rust"
    /\ MutexFree(branchLocks[inst[i].branch])
    /\ branchLocks' = [branchLocks EXCEPT ![inst[i].branch] = i]
    /\ inst' = [inst EXCEPT ![i].pc = "locked"]
    /\ UNCHANGED <<schedVars, task, resolveVars, refreshVars, daemonVars, pureVars, carbonVars,
                   installingBranches, installMutex, rustTree>>

\* installMutex.Lock(); from here steamcmd rewrites /opt/rust/<branch>
InstallLockGlobal(i) ==
    /\ inst[i].pc = "locked" /\ inst[i].fn = "rust"
    /\ MutexFree(installMutex)
    /\ installMutex' = i
    /\ inst' = [inst EXCEPT ![i].pc = "installing"]
    /\ UNCHANGED <<schedVars, task, resolveVars, refreshVars, daemonVars, pureVars, carbonVars,
                   installingBranches, branchLocks, rustTree>>

\* the tree a failed install leaves: the old one is removed first, steamcmd
\* may have written RustDedicated or not
RustFailureLeaves(old) == {"none", "broken"}

\* the install returns, with nil or after SendError with an error;
\* the deferred installMutex.Unlock() and branchLock.Unlock()
InstallUnlock(i) ==
    /\ inst[i].pc = "installing" /\ inst[i].fn = "rust"
    /\ installMutex' = Unlock(installMutex)
    /\ branchLocks' = [branchLocks EXCEPT ![inst[i].branch] = "free"]
    /\ \/ /\ rustTree' = [rustTree EXCEPT ![inst[i].branch] = "complete"]
          /\ inst' = [inst EXCEPT ![i] = [@ EXCEPT !.pc = "unmark", !.last = "ok"]]
       \/ \E left \in RustFailureLeaves(rustTree[inst[i].branch]) :
             /\ rustTree' = [rustTree EXCEPT ![inst[i].branch] = left]
             /\ inst' = [inst EXCEPT ![i] = [@ EXCEPT !.pc = "unmark", !.last = "failed",
                                                     !.sentError = TRUE]]
    /\ UNCHANGED <<schedVars, task, resolveVars, refreshVars, daemonVars, pureVars, carbonVars, installingBranches>>

\* the deferred delete(installingBranches, branch)
InstallUnmark(i) ==
    /\ inst[i].pc = "unmark" /\ inst[i].fn = "rust"
    /\ installingBranches' = installingBranches \ {inst[i].branch}
    /\ inst' = [inst EXCEPT ![i] = [@ EXCEPT !.pc = "idle", !.branch = "none"]]
    /\ UNCHANGED <<schedVars, task, resolveVars, refreshVars, daemonVars, pureVars, carbonVars,
                   branchLocks, installMutex, rustTree>>

\* os.Stat of the marker file: what the tree holds, or either answer while
\* an install is rewriting the tree
MarkerFound(tree, b, rewriting) ==
    IF rewriting THEN BOOLEAN ELSE {tree[b] # "none"}

\* EnsureRustBranchInstalled: isRustInstalled, then return nil or go on to
\* InstallRustBranch
EnsureRustBranchInstalled(i, b) ==
    /\ inst[i].pc = "idle"
    /\ \E found \in MarkerFound(rustTree, b,
                                \E j \in Installers : /\ inst[j].pc = "installing"
                                                      /\ inst[j].fn = "rust"
                                                      /\ inst[j].branch = b) :
          inst' = [inst EXCEPT ![i] =
                      IF found
                      THEN [pc |-> "idle", fn |-> "rust", branch |-> b, last |-> "present",
                            sentError |-> FALSE]
                      ELSE [pc |-> "calling", fn |-> "rust", branch |-> b, last |-> "none",
                            sentError |-> FALSE]]
    /\ UNCHANGED <<schedVars, task, resolveVars, refreshVars, daemonVars, pureVars, rustVars, carbonVars>>

\* ----------------------------------------------------------- InstallCarbon
\* installingMutex.Lock(); "already being installed, skipping", or
\* installingBranches[branch] = true; installingMutex.Unlock()
InstallCarbon(i, b) ==
    /\ CanCall(i, "carbon", b)
    /\ inst' = [inst EXCEPT ![i] = CallBegin(carbonInstallingBranches, "carbon", b)]
    /\ carbonInstallingBranches' = IF AlreadyInstalling(carbonInstallingBranches, b)
                                   THEN carbonInstallingBranches
                                   ELSE carbonInstallingBranches \cup {b}
    /\ UNCHANGED <<schedVars, task, resolveVars, refreshVars, daemonVars, pureVars, rustVars,
                   carbonBranchLocks, carbonTree>>

\* branchLock := getBranchLock(lockBranch); branchLock.Lock(); from here the
\* archive is downloaded and unpacked into /opt/carbon/<branch>
CarbonLockBranch(i) ==
    /\ inst[i].pc = "marked" /\ inst[i].fn = "carbon"
    /\ MutexFree(carbonBranchLocks[inst[i].branch])
    /\ carbonBranchLocks' = [carbonBranchLocks EXCEPT ![inst[i].branch] = i]
    /\ inst' = [inst EXCEPT ![i].pc = "installing"]
    /\ UNCHANGED <<schedVars, task, resolveVars, refreshVars, daemonVars, pureVars, rustVars,
                   carbonInstallingBranches, carbonTree>>

\* the tree a failed install leaves: the old one (the download failed) or a
\* partly unpacked one
CarbonFailureLeaves(old) == {old, "broken"}

\* the install returns, with nil or after SendError with an error;
\* the deferred branchLock.Unlock()
CarbonUnlock(i) ==
    /\ inst[i].pc = "installing" /\ inst[i].fn = "carbon"
    /\ carbonBranchLocks' = [carbonBranchLocks EXCEPT ![inst[i].branch] = "free"]
    /\ \/ /\ carbonTree' = [carbonTree EXCEPT ![inst[i].branch] = "complete"]
          /\ inst' = [inst EXCEPT ![i] = [@ EXCEPT !.pc = "unmark", !.last = "ok"]]
       \/ \E left \in CarbonFailureLeaves(carbonTree[inst[i].branch]) :
             /\ carbonTree' = [carbonTree EXCEPT ![inst[i].branch] = left]
             /\ inst' = [inst EXCEPT ![i] = [@ EXCEPT !.pc = "unmark", !.last = "failed",
                                                     !.sentError = TRUE]]
    /\ UNCHANGED <<schedVars, task, resolveVars, refreshVars, daemonVars, pureVars, rustVars, carbonInstallingBranches>>

\* the deferred delete(installingBranches, branch)
CarbonUnmark(i) ==
    /\ inst[i].pc = "unmark" /\ inst[i].fn = "carbon"
    /\ carbonInstallingBranches' = carbonInstallingBranches \ {inst[i].branch}
    /\ inst' = [inst EXCEPT ![i] = [@ EXCEPT !.pc = "idle", !.branch = "none"]]
    /\ UNCHANGED <<schedVars, task, resolveVars, refreshVars, daemonVars, pureVars, rustVars,
                   carbonBranchLocks, carbonTree>>

\* EnsureCarbonInstalled: isCarbonInstalled, then return nil or go on to
\* InstallCarbon
EnsureCarbonInstalled(i, b) ==
    /\ inst[i].pc = "idle"
    /\ \E found \in MarkerFound(carbonTree, b,
                                \E j \in Installers : /\ inst[j].pc = "installing"
                                                      /\ inst[j].fn = "carbon"
                                                      /\ inst[j].branch = b) :
          inst' = [inst EXCEPT ![i] =
                      IF found
                      THEN [pc |-> "idle", fn |-> "carbon", branch |-> b, last |-> "present",
                            sentError |-> FALSE]
                      ELSE [pc |-> "calling", fn |-> "carbon", branch |-> b, last |-> "none",
                            sentError |-> FALSE]]
    /\ UNCHANGED <<schedVars, task, resolveVars, refreshVars, daemonVars, pureVars, rustVars, carbonVars>>

\* ------------------------------------------------------------ InstallSpec
\* goroutines calling the install and ensure functions of both packages
InstallInit ==
    /\ SchedulerIdle /\ ResolveIdle /\ RefreshIdle /\ DaemonIdle /\ PureIdle
    /\ installingBranches = {}
    /\ branchLocks = [b \in Branches |-> "free"]
    /\ installMutex = "free"
    /\ inst = [i \in Installers |-> NoCall]
    /\ carbonInstallingBranches = {}
    /\ carbonBranchLocks = [b \in Branches |-> "free"]
    /\ rustTree \in [Branches -> {"none", "complete"}]
    /\ carbonTree \in [Branches -> {"none", "complete"}]

InstallNext ==
    \/ \E i \in Installers, b \in Branches : InstallRustBranch(i, b)
    \/ \E i \in Installers : InstallLockBranch(i)
    \/ \E i \in Installers : InstallLockGlobal(i)
    \/ \E i \in Installers : InstallUnlock(i)
    \/ \E i \in Installers : InstallUnmark(i)
    \/ \E i \in Installers, b \in Branches : EnsureRustBranchInstalled(i, b)
    \/ \E i \in Installers, b \in Branches : InstallCarbon(i, b)
    \/ \E i \in Installers : CarbonLockBranch(i)
    \/ \E i \in Installers : CarbonUnlock(i)
    \/ \E i \in Installers : CarbonUnmark(i)
    \/ \E i \in Installers, b \in Branches : EnsureCarbonInstalled(i, b)

InstallSpec == InstallInit /\ [][InstallNext]_vars

\* ------------------------------------------------------------- the daemon
MaxClock == 3

\* config.Server and config.Config, as far as the daemon reads them
Srv(name, path, branch) == [name |-> name, path |-> path, branch |-> branch]
Cfg(servers, interval, hours, set) ==
    [servers |-> servers, checkInterval |-> interval, mapGenerationHours |-> hours,
     lookaheadHours |-> set.lookaheadHours, discordWebhook |-> set.discordWebhook,
     eventDelay |-> set.eventDelay]

\* the configs a reload can find on disk
ServerLists ==
    {<<>>,
     <<Srv("alpha", "s1", "main")>>,
     <<Srv("alpha2", "s1", "main")>>,
     <<Srv("alpha", "s1", "main"), Srv("beta", "s2", "staging")>>}
CheckIntervals == {0, 2}
MapGenerationHours == {0, 24}
\* lookahead_hours, discord_webhook and event_delay, changed together
Settings ==
    {[lookaheadHours |-> 24, discordWebhook |-> "hookA", eventDelay |-> 5],
     [lookaheadHours |-> 48, discordWebhook |-> "hookB", eventDelay |-> 0]}
DefaultSettings == [lookaheadHours |-> 24, discordWebhook |-> "hookA", eventDelay |-> 5]
Configs ==
    {Cfg(l, i, h, set) : l \in ServerLists, i \in CheckIntervals, h \in MapGenerationHours,
                         set \in Settings}

\* scheduler.New(cfg.LookaheadHours, cfg.DiscordWebhook, cfg.EventDelay)
SchedulerNew(cfg) ==
    [lookaheadHours |-> cfg.lookaheadHours, webhookURL |-> cfg.discordWebhook,
     eventDelay |-> cfg.eventDelay]

\* the keys of oldServers / newServers
PathSet(cfg) == {cfg.servers[j].path : j \in DOMAIN cfg.servers}

\* detectServerChanges: some old path is not a new one, or some new path not an old one
detectServerChangesAdded(old, new) ==
    IF old = NilConfig THEN FALSE ELSE \E p \in PathSet(new) : p \notin PathSet(old)
detectServerChanges(old, new) ==
    IF old = NilConfig THEN FALSE
    ELSE \/ \E p \in PathSet(old) : p \notin PathSet(new)
         \/ \E p \in PathSet(new) : p \notin PathSet(old)

\* time.Since(d.lastUpdate) >= interval
IntervalPassedStrictly(since, interval) == since > interval
IntervalPassed(since, interval) == since >= interval

\* shouldUpdateCalendars
shouldUpdateCalendars(cfg, last, n) ==
    IF cfg = NilConfig THEN FALSE
    ELSE IF Len(cfg.servers) = 0 THEN FALSE
    ELSE last = 0 \/ IntervalPassed(n - last, cfg.checkInterval)

\* Run up to the ticker loop: the initial config is loaded; with servers,
\* ensureServersInstalled and the initial updateCalendars follow
RunStart ==
    /\ run = "new"
    /\ \/ /\ run' = "returned"
          /\ UNCHANGED <<config, scheduler>>
       \/ \E cfg \in Configs :
             /\ config' = cfg
             /\ \/ /\ scheduler' = NilScheduler
                   /\ run' = "returned"
                \/ /\ scheduler' = SchedulerNew(cfg)
                   /\ run' = IF Len(cfg.servers) > 0 THEN "ensuring" ELSE "select"
    /\ UNCHANGED <<schedVars, task, resolveVars, instVars, refreshVars, pureVars,
                   lastUpdate, clock, ctx, configTicker, updateCheckTicker,
                   mapGenInProgress, mapPrep, lastTick>>

\* ensureServersInstalled returns
EnsureServersInstalledDone ==
    /\ run = "ensuring"
    /\ run' = "firstUpdate"
    /\ UNCHANGED <<schedVars, task, resolveVars, instVars, refreshVars, pureVars, scheduler,
                   config, lastUpdate, clock, ctx, configTicker, updateCheckTicker,
                   mapGenInProgress, mapPrep, lastTick>>

\* the supervisor is inside updateCalendars (UpdateEvents holds s.mutex)
Updating == run \in {"firstUpdate", "updating"}

\* updateCalendars: UpdateEvents returns; on an error nothing more, else
\* d.lastUpdate = time.Now() and go d.prepareWipeMaps()
updateCalendars ==
    /\ Updating
    /\ run' = "select"
    /\ \/ UNCHANGED <<lastUpdate, mapPrep>>
       \/ /\ lastUpdate' = clock
          /\ \E g \in MapGoroutines :
                /\ mapPrep[g] = "none"
                /\ mapPrep' = [mapPrep EXCEPT ![g] = "start"]
    /\ UNCHANGED <<schedVars, task, resolveVars, instVars, refreshVars, pureVars, scheduler,
                   config, clock, ctx, configTicker, updateCheckTicker,
                   mapGenInProgress, lastTick>>

\* the tickers put a tick into their channel (of capacity one)
ConfigTickerFires ==
    /\ run \in {"select", "updating", "checking"}
    /\ ~configTicker
    /\ configTicker' = TRUE
    /\ UNCHANGED <<schedVars, task, resolveVars, instVars, refreshVars, pureVars, scheduler,
                   config, lastUpdate, clock, ctx, updateCheckTicker, run,
                   mapGenInProgress, mapPrep, lastTick>>

UpdateCheckTickerFires ==
    /\ run \in {"select", "updating", "checking"}
    /\ ~updateCheckTicker
    /\ updateCheckTicker' = TRUE
    /\ UNCHANGED <<schedVars, task, resolveVars, instVars, refreshVars, pureVars, scheduler,
                   config, lastUpdate, clock, ctx, configTicker, run,
                   mapGenInProgress, mapPrep, lastTick>>

\* time passes
ClockTick ==
    /\ clock < MaxClock
    /\ clock' = clock + 1
    /\ UNCHANGED <<schedVars, task, resolveVars, instVars, refreshVars, pureVars, scheduler,
                   config, lastUpdate, ctx, configTicker, updateCheckTicker, run,
                   mapGenInProgress, mapPrep, lastTick>>

\* the shutdown signal: the context of Run is cancelled
Cancel ==
    /\ ctx = "live"
    /\ ctx' = "cancelled"
    /\ UNCHANGED <<schedVars, task, resolveVars, instVars, refreshVars, pureVars, scheduler,
                   config, lastUpdate, clock, configTicker, updateCheckTicker, run,
                   mapGenInProgress, mapPrep, lastTick>>

\* select: case <-ctx.Done(): return nil
SelectDone ==
    /\ run = "select"
    /\ ctx = "cancelled"
    /\ run' = "returned"
    /\ UNCHANGED <<schedVars, task, resolveVars, instVars, refreshVars, pureVars, scheduler,
                   config, lastUpdate, clock, ctx, configTicker, updateCheckTicker,
                   mapGenInProgress, mapPrep, lastTick>>

\* select: case <-updateCheckTicker.C: d.checkForUpdates()
SelectUpdateCheck ==
    /\ run = "select"
    /\ updateCheckTicker
    /\ updateCheckTicker' = FALSE
    /\ run' = "checking"
    /\ UNCHANGED <<schedVars, task, resolveVars, instVars, refreshVars, pureVars, scheduler,
                   config, lastUpdate, clock, ctx, configTicker,
                   mapGenInProgress, mapPrep, lastTick>>

\* checkForUpdates returns
checkForUpdatesDone ==
    /\ run = "checking"
    /\ run' = "select"
    /\ UNCHANGED <<schedVars, task, resolveVars, instVars, refreshVars, pureVars, scheduler,
                   config, lastUpdate, clock, ctx, configTicker, updateCheckTicker,
                   mapGenInProgress, mapPrep, lastTick>>

\* select: case <-configTicker.C: the config is reloaded; on an error the
\* loop continues, else the servers are compared, the config is stored and
\* updateCalendars is called or not
SelectConfigTick ==
    /\ run = "select"
    /\ configTicker
    /\ configTicker' = FALSE
    /\ \/ /\ lastTick' = "failed"
          /\ UNCHANGED <<config, run>>
       \/ \E cfg \in Configs :
             LET serversChanged == detectServerChanges(config, cfg)
             IN  /\ config' = cfg
                 /\ lastTick' = "loaded"
                 /\ run' = IF serversChanged THEN "updating"
                           ELSE IF shouldUpdateCalendars(cfg, lastUpdate, clock)
                                THEN "updating" ELSE "select"
    /\ UNCHANGED <<schedVars, task, resolveVars, instVars, refreshVars, pureVars, scheduler,
                   lastUpdate, clock, ctx, updateCheckTicker, mapGenInProgress, mapPrep>>

\* ------------------------------------------------------- prepareWipeMaps
\* "if d.config.MapGenerationHours == 0 || len(d.config.Servers) == 0"
MapPrepBegin(g) ==
    /\ mapPrep[g] = "start"
    /\ mapPrep' = [mapPrep EXCEPT ![g] =
                      IF config.mapGenerationHours = 0 \/ Len(config.servers) = 0
                      THEN "none" ELSE "check"]
    /\ UNCHANGED <<schedVars, task, resolveVars, instVars, refreshVars, pureVars, scheduler,
                   config, lastUpdate, clock, ctx, configTicker, updateCheckTicker, run,
                   mapGenInProgress, lastTick>>

\* d.mapGenInProgress
PassInProgressNever(flag) == FALSE
PassInProgress(flag) == flag

\* mapGenMutex.Lock(); "already in progress, skipping", or
\* mapGenInProgress = true; mapGenMutex.Unlock()
MapPrepCheck(g) ==
    /\ mapPrep[g] = "check"
    /\ IF PassInProgress(mapGenInProgress)
       THEN /\ mapPrep' = [mapPrep EXCEPT ![g] = "none"]
            /\ UNCHANGED mapGenInProgress
       ELSE /\ mapPrep' = [mapPrep EXCEPT ![g] = "marked"]
            /\ mapGenInProgress' = TRUE
    /\ UNCHANGED <<schedVars, task, resolveVars, instVars, refreshVars, pureVars, scheduler,
                   config, lastUpdate, clock, ctx, configTicker, updateCheckTicker, run,
                   lastTick>>

\* d.scheduler.GetEvents() (waits for s.mutex); the servers needing maps are
\* collected: none, and the pass returns, or some, and the script is called
MapPrepScan(g) ==
    /\ mapPrep[g] = "marked"
    /\ ~Updating
    /\ \E needed \in BOOLEAN :
          mapPrep' = [mapPrep EXCEPT ![g] = IF needed THEN "script" ELSE "end"]
    /\ UNCHANGED <<schedVars, task, resolveVars, instVars, refreshVars, pureVars, scheduler,
                   config, lastUpdate, clock, ctx, configTicker, updateCheckTicker, run,
                   mapGenInProgress, lastTick>>

\* callGenerateMapsScript returns, with nil or with an error that is notified
MapPrepScript(g) ==
    /\ mapPrep[g] = "script"
    /\ mapPrep' = [mapPrep EXCEPT ![g] = "end"]
    /\ UNCHANGED <<schedVars, task, resolveVars, instVars, refreshVars, pureVars, scheduler,
                   config, lastUpdate, clock, ctx, configTicker, updateCheckTicker, run,
                   mapGenInProgress, lastTick>>

\* the deferred mapGenInProgress = false
MapPrepEnd(g) ==
    /\ mapPrep[g] = "end"
    /\ mapGenInProgress' = FALSE
    /\ mapPrep' = [mapPrep EXCEPT ![g] = "none"]
    /\ UNCHANGED <<schedVars, task, resolveVars, instVars, refreshVars, pureVars, scheduler,
                   config, lastUpdate, clock, ctx, configTicker, updateCheckTicker, run,
                   lastTick>>

DaemonInit ==
    SchedulerIdle /\ ResolveIdle /\ InstallIdle /\ RefreshIdle /\ DaemonIdle /\ PureIdle

DaemonNext ==
    \/ RunStart
    \/ EnsureServersInstalledDone
    \/ updateCalendars
    \/ ConfigTickerFires
    \/ UpdateCheckTickerFires
    \/ ClockTick
    \/ Cancel
    \/ SelectDone
    \/ SelectUpdateCheck
    \/ checkForUpdatesDone
    \/ SelectConfigTick
    \/ \E g \in MapGoroutines : MapPrepBegin(g)
    \/ \E g \in MapGoroutines : MapPrepCheck(g)
    \/ \E g \in MapGoroutines : MapPrepScan(g)
    \/ \E g \in MapGoroutines : MapPrepScript(g)
    \/ \E g \in MapGoroutines : MapPrepEnd(g)

DaemonSpec == DaemonInit /\ [][DaemonNext]_vars

\* ------------------------------------------- functions called on their own
MaxWindowNow == 2
Hour == 2                               \* time.Hour, in instants

\* configs for detectServerChanges: a rename, another branch, another order,
\* a second entry of a path that is there, a path added, a path removed
DetectLists ==
    ServerLists \cup
    {<<Srv("alpha", "s1", "staging")>>,
     <<Srv("beta", "s2", "staging")>>,
     <<Srv("beta", "s2", "staging"), Srv("alpha", "s1", "main")>>,
     <<Srv("alpha", "s1", "main"), Srv("copy", "s1", "main")>>}
DetectConfigs == {Cfg(l, i, 0, DefaultSettings) : l \in DetectLists, i \in CheckIntervals}

\* d.detectServerChanges(newConfig) with d.config = old
detectServerChangesCall ==
    \E old \in DetectConfigs \cup {NilConfig}, new \in DetectConfigs :
        /\ arg' = [fn |-> "detectServerChanges", old |-> old, new |-> new]
        /\ res' = [fn |-> "detectServerChanges", value |-> detectServerChanges(old, new)]
        /\ UNCHANGED <<schedVars, task, resolveVars, instVars, refreshVars, daemonVars>>

\* a calendar of one VEVENT without RRULE
Summaries == {"restart", "wipe", "maintenance"}
VEvents ==
    [summary : Summaries, startOk : BOOLEAN, start : 0..(MaxWindowNow + 2 * Hour + 1)]

\* GetUpcomingEvents on such a calendar, called at n
GetUpcomingEvents(ev, lookaheadHours, n) ==
    LET windowEnd == n + lookaheadHours * Hour
    IN  IF ev.summary \notin {"restart", "wipe"} THEN <<>>
        ELSE IF ~ev.startOk THEN <<>>
        ELSE IF After(ev.start, n) /\ Before(ev.start, windowEnd)
             THEN <<[type |-> ev.summary, start |-> ev.start]>>
             ELSE <<>>

GetUpcomingEventsCall ==
    \E ev \in VEvents, h \in 1..2, n \in 0..MaxWindowNow :
        /\ arg' = [fn |-> "GetUpcomingEvents", ev |-> ev, hours |-> h, now |-> n]
        /\ res' = [fn |-> "GetUpcomingEvents", value |-> GetUpcomingEvents(ev, h, n)]
        /\ UNCHANGED <<schedVars, task, resolveVars, instVars, refreshVars, daemonVars>>

\* the trees with a lock registry each, and the branch arguments
Trees == {"rust", "carbon"}
LockBranches == {"", "main", "staging"}

\* the key under which AcquireReadLock looks up the lock in branchLocks
ReadLockKey(tree, b) ==
    IF tree = "rust" THEN (IF b = "" THEN "main" ELSE b)
    ELSE (IF b = "" \/ b = "main" THEN "main" ELSE b)

\* the key under which InstallRustBranch / InstallCarbon look up the lock
WriteLockKey(tree, b) ==
    IF tree = "rust" THEN b
    ELSE (IF b = "" THEN "main" ELSE b)

\* a reader and a writer of one tree call getBranchLock
getBranchLockCall ==
    \E tree \in Trees, rb \in LockBranches, wb \in LockBranches :
        /\ arg' = [fn |-> "getBranchLock", tree |-> tree, reader |-> rb, writer |-> wb]
        /\ res' = [fn |-> "getBranchLock",
                   value |-> <<ReadLockKey(tree, rb), WriteLockKey(tree, wb)>>]
        /\ UNCHANGED <<schedVars, task, resolveVars, instVars, refreshVars, daemonVars>>

PureInit ==
    SchedulerIdle /\ ResolveIdle /\ InstallIdle /\ RefreshIdle /\ DaemonIdle /\ PureIdle

PureNext ==
    \/ detectServerChangesCall
    \/ GetUpcomingEventsCall
    \/ getBranchLockCall

PureSpec == PureInit /\ [][PureNext]_vars

\* --------------------------------------- one batch, with installs going on
BatchKey == <<Minute, "Z">>

\* the event lists a bucket of one minute can hold
ExecBatches ==
    {q \in Timelines(Minute - 1, UTCOnly) :
        q # <<>> /\ \A i \in 1..Len(q) : TimeKey(q[i]) = BatchKey}

\* the timer of the bucket has fired and its task has taken the event list
ExecInit ==
    /\ now = Minute + 1
    /\ upc = "idle"
    /\ fetchNow = Minute - 1
    /\ \E batch \in ExecBatches :
          /\ events = batch
          /\ jobEvents = (BatchKey :> batch)
          /\ preFire = (BatchKey :> batch)
          /\ task = (BatchKey :> [NewTask EXCEPT !.pc = "delay", !.snap = batch, !.due = TRUE])
    /\ scheduledJobs = (BatchKey :> 1)
    /\ executingJobs = {BatchKey}
    /\ timers = <<>>
    /\ changed = {}
    /\ ResolveIdle
    /\ InstallIdle
    /\ RefreshIdle /\ DaemonIdle /\ PureIdle

ExecNext ==
    \/ \E k \in DOMAIN task : ExecuteEventBatch(k)
    \/ \E k \in DOMAIN task : stopServers(k)
    \/ \E k \in DOMAIN task : SyncServers(k)
    \/ \E k \in DOMAIN task : \E j \in DOMAIN task[k].workers : syncServerBegin(k, j)
    \/ \E k \in DOMAIN task : \E j \in DOMAIN task[k].workers : syncServerRust(k, j)
    \/ \E k \in DOMAIN task : \E j \in DOMAIN task[k].workers : syncServerCarbon(k, j)
    \/ \E k \in DOMAIN task : SyncJoin(k)
    \/ \E k \in DOMAIN task : wipeServerData(k)
    \/ \E k \in DOMAIN task : runPreStartHook(k)
    \/ \E k \in DOMAIN task : startServers(k)
    \/ \E k \in DOMAIN task : TaskClear(k)
    \/ \E i \in Installers, b \in Branches : InstallRustBranch(i, b)
    \/ \E i \in Installers : InstallLockBranch(i)
    \/ \E i \in Installers : InstallLockGlobal(i)
    \/ \E i \in Installers : InstallUnlock(i)
    \/ \E i \in Installers : InstallUnmark(i)

ExecSpec == ExecInit /\ [][ExecNext]_vars

\* ------------------------------------ refreshes against given calendars
MaxRefreshes == 2          \* refreshes counted

\* the events the calendars can hold within reach of the clock
UpstreamUniverse ==
    {e \in {Event(s, ty, t, "Z") : s \in Servers, ty \in Types,
                                    t \in {u \in 2..(MaxNow + Lookahead) : u % 2 = 0}} :
        e.type \in CalendarTypes[e.server]}

UpstreamLists ==
    UNION {{q \in [1..len -> UpstreamUniverse] :
              \A i \in 1..(len - 1) : Rank(q[i]) <= Rank(q[i + 1])} :
           len \in 0..MaxCandidates}

\* the loop over the servers passed in: FetchCalendar or GetUpcomingEvents
\* failing skips the server; else its events After(now) and
\* Before(now + lookahead) are appended
Fetched(n, servers, failed) ==
    SelectSeq(upstream, LAMBDA e : /\ e.server \in servers /\ e.server \notin failed
                                   /\ After(e.time, n) /\ Before(e.time, n + Lookahead))

\* detectEventChanges: the key of an event, the added and the removed events
DiffKey(e) == <<e.server, e.type, Format(e.time, e.zone)>>
AddedAll(old, new) == SeqSet(new)
Added(old, new) == {e \in SeqSet(new) : DiffKey(e) \notin {DiffKey(o) : o \in SeqSet(old)}}
Removed(old, new) == {o \in SeqSet(old) : DiffKey(o) \notin {DiffKey(e) : e \in SeqSet(new)}}

RefreshInit ==
    /\ SchedulerIdle /\ ResolveIdle /\ InstallIdle
    /\ upstream \in UpstreamLists
    /\ refresh = NoRefresh
    /\ DaemonIdle /\ PureIdle

\* d.config.Servers: the lists of servers a refresh can be called with
ServerSets == SUBSET Servers

\* UpdateEvents(servers) after the lock: fetch per server, resolveConflicts,
\* sort, detectEventChanges, s.events = allEvents, scheduleJobs
RefreshFinish ==
    /\ upc = "fetching"
    /\ \E servers \in ServerSets : \E failed \in SUBSET servers :
          LET cands == Fetched(fetchNow, servers, failed)
          IN  \E allEvents \in SortByTime(resolveConflicts(cands)) :
                 /\ Reconcile(allEvents)
                 /\ refresh' =
                       [count |-> IF refresh.count < MaxRefreshes THEN refresh.count + 1
                                  ELSE refresh.count,
                        at |-> now,
                        servers |-> servers,
                        failed |-> failed,
                        cands |-> cands,
                        added |-> Added(events, allEvents),
                        removed |-> Removed(events, allEvents),
                        sameKeys |-> /\ refresh.count >= 1
                                     /\ allEvents # <<>>
                                     /\ CurrentTimeKeys(allEvents) = CurrentTimeKeys(events),
                        repeated |-> refresh.count >= 1 /\ cands # <<>> /\ cands = refresh.cands]
    /\ UNCHANGED <<upstream, resolveVars, instVars, daemonVars, pureVars>>

RefreshNext ==
    \/ UpdateBegin
    \/ RefreshFinish
    \/ Tick
    \/ \E id \in DOMAIN timers : TimerFire(id)
    \/ \E k \in DOMAIN task : TaskMark(k)
    \/ \E k \in DOMAIN task : executeEventGroupInternal(k)
    \/ \E k \in DOMAIN task : TaskClear(k)

RefreshSpec == RefreshInit /\ [][RefreshNext]_vars

\* ------------------------------------------- resolveConflicts on its own
MaxResolveLen == 3         \* candidate events in one call

\* candidates of one minute: two servers, both types, two seconds, two zones
ResolveUniverse ==
    {Event(s, ty, t, z) : s \in Servers, ty \in Types, t \in {Minute, Minute + 2}, z \in Zones}

ResolveInputs == UNION {[1..len -> ResolveUniverse] : len \in 0..MaxResolveLen}

ResolveInit ==
    /\ SchedulerIdle /\ InstallIdle /\ RefreshIdle /\ DaemonIdle /\ PureIdle
    /\ rcIn \in ResolveInputs
    /\ rcOut = [done |-> FALSE, resolved |-> <<>>]

\* resolved := s.resolveConflicts(allEvents)
ResolveCall ==
    /\ ~rcOut.done
    /\ \E resolved \in Orders(resolveConflicts(rcIn)) :
           rcOut' = [done |-> TRUE, resolved |-> resolved]
    /\ UNCHANGED <<schedVars, task, rcIn, instVars, refreshVars, daemonVars, pureVars>>

ResolveNext == ResolveCall

ResolveSpec == ResolveInit /\ [][ResolveNext]_vars

\* ------------------------------- two buckets of one server, minutes apart
MaxOverlapTicks == 4       \* the clock advances this many seconds

\* one server with restarts: the candidate lists of its calendar
OneServerLists(n) ==
    {q \in CandidateLists(n, UTCOnly) :
        \A i \in 1..Len(q) : q[i].server = "s1" /\ q[i].type = "restart"}
OverlapClock == {n \in 1..(1 + 2 * MaxOverlapTicks) : n % 2 = 1}
TimelinesOneServer ==
    [n \in OverlapClock |-> UNION {SortByTime(resolveConflicts(cands)) : cands \in OneServerLists(n)}]

\* time passes; a timer that is due fires before the clock moves on
OverlapTick ==
    /\ now + 2 <= 1 + 2 * MaxOverlapTicks
    /\ \A id \in DOMAIN timers : After(ScheduleTime(timers[id]), now)
    /\ now' = now + 2
    /\ UNCHANGED <<upc, fetchNow, events, scheduledJobs, jobEvents, executingJobs,
                   timers, task, preFire, changed, otherVars>>

OverlapNext ==
    \/ UpdateBegin
    \/ UpdateFinish(TimelinesOneServer)
    \/ OverlapTick
    \/ \E id \in DOMAIN timers : TimerFire(id)
    \/ \E k \in DOMAIN task : TaskMark(k)
    \/ \E k \in DOMAIN task : ExecuteEventBatch(k)
    \/ \E k \in DOMAIN task : stopServers(k)
    \/ \E k \in DOMAIN task : SyncServers(k)
    \/ \E k \in DOMAIN task : \E j \in DOMAIN task[k].workers : syncServerBegin(k, j)
    \/ \E k \in DOMAIN task : \E j \in DOMAIN task[k].workers : syncServerRust(k, j)
    \/ \E k \in DOMAIN task : \E j \in DOMAIN task[k].workers : syncServerCarbon(k, j)
    \/ \E k \in DOMAIN task : SyncJoin(k)
    \/ \E k \in DOMAIN task : wipeServerData(k)
    \/ \E k \in DOMAIN task : runPreStartHook(k)
    \/ \E k \in DOMAIN task : startServers(k)
    \/ \E k \in DOMAIN task : TaskClear(k)

OverlapSpec == Init /\ [][OverlapNext]_vars

\* ------------------- refresh, timer task, sync workers and installs, fair
\* one server with one restart at the first minute
LiveLists(n) == {q \in OneServerLists(n) : \A i \in 1..Len(q) : q[i].time = Minute}
LiveTimelines ==
    [n \in ClockValues |-> UNION {SortByTime(resolveConflicts(cands)) : cands \in LiveLists(n)}]
LiveKey == Format(Minute, "Z")

\* the branch each goroutine installs
LiveBranch == [i \in Installers |-> IF i = "i1" THEN "main" ELSE "staging"]

\* the steps of a batch that wait for no lock
BatchStep(k) ==
    /\ k \in DOMAIN task
    /\ \/ ExecuteEventBatch(k)
       \/ stopServers(k)
       \/ SyncServers(k)
       \/ \E j \in DOMAIN task[k].workers : syncServerBegin(k, j)
       \/ \E j \in DOMAIN task[k].workers : syncServerRust(k, j)
       \/ \E j \in DOMAIN task[k].workers : syncServerCarbon(k, j)
       \/ SyncJoin(k)
       \/ wipeServerData(k)
       \/ runPreStartHook(k)
       \/ startServers(k)

LiveNext ==
    \/ UpdateBegin
    \/ UpdateFinish(LiveTimelines)
    \/ Tick
    \/ \E id \in DOMAIN timers : TimerFire(id)
    \/ \E k \in DOMAIN task : TaskMark(k)
    \/ \E k \in DOMAIN task : ExecuteEventBatch(k)
    \/ \E k \in DOMAIN task : stopServers(k)
    \/ \E k \in DOMAIN task : SyncServers(k)
    \/ \E k \in DOMAIN task : \E j \in DOMAIN task[k].workers : syncServerBegin(k, j)
    \/ \E k \in DOMAIN task : \E j \in DOMAIN task[k].workers : syncServerRust(k, j)
    \/ \E k \in DOMAIN task : \E j \in DOMAIN task[k].workers : syncServerCarbon(k, j)
    \/ \E k \in DOMAIN task : SyncJoin(k)
    \/ \E k \in DOMAIN task : wipeServerData(k)
    \/ \E k \in DOMAIN task : runPreStartHook(k)
    \/ \E k \in DOMAIN task : startServers(k)
    \/ \E k \in DOMAIN task : TaskClear(k)
    \/ \E i \in Installers : InstallRustBranch(i, LiveBranch[i])
    \/ \E i \in Installers : InstallLockBranch(i)
    \/ \E i \in Installers : InstallLockGlobal(i)
    \/ \E i \in Installers : InstallUnlock(i)
    \/ \E i \in Installers : InstallUnmark(i)

\* every external call returns and every goroutine that can run does (weak
\* fairness); sync.Mutex hands the lock to a goroutine that keeps waiting
\* for it (strong fairness of the Lock() steps)
LiveSpec ==
    /\ Init /\ [][LiveNext]_vars
    /\ WF_vars(UpdateFinish(LiveTimelines))
    /\ SF_vars(TaskMark(LiveKey)) /\ SF_vars(TaskClear(LiveKey))
    /\ WF_vars(BatchStep(LiveKey))
    /\ \A i \in Installers :
          /\ WF_vars(InstallLockBranch(i) \/ InstallUnlock(i) \/ InstallUnmark(i))
          /\ SF_vars(InstallLockGlobal(i))

\* ================================================================== claims

\* C1: cancellation immunity.  While the executing mark of key k stays set,
\* no step (in particular no reconcile, whatever its timeline) removes k from
\* scheduledJobs or jobEvents or changes its job ID, and the task keeps its
\* snapshot and only moves on towards its end.
CancellationImmunity ==
    [][\A k \in executingJobs \cap executingJobs' :
          /\ k \in DOMAIN scheduledJobs =>
                k \in DOMAIN scheduledJobs' /\ scheduledJobs'[k] = scheduledJobs[k]
          /\ k \in DOMAIN jobEvents => k \in DOMAIN jobEvents'
          /\ k \in DOMAIN task /\ k \in DOMAIN task'
          /\ task'[k].snap = task[k].snap
          /\ task[k].pc = "clear" => task'[k].pc = "clear"]_vars

\* a reconcile has dropped the key from the timeline while its batch runs,
\* and the bucket is still there
ImmunityWitness ==
    \E k \in executingJobs :
        /\ k \in DOMAIN task /\ task[k].pc = "delay"
        /\ k \in DOMAIN scheduledJobs /\ k \in DOMAIN jobEvents
        /\ k \notin CurrentTimeKeys(events)

\* C2: membership change.  The list the batch executor is invoked with is the
\* group of the key in the timeline of the last reconcile that ran at or
\* before the fire time, whatever list the timer was created with.
ExecutorSeesLatestList ==
    \A k \in DOMAIN task :
        task[k].pc = "delay" => k \in DOMAIN preFire /\ task[k].snap = preFire[k]

\* a batch runs for a bucket whose servers a reconcile changed after creation
MembershipChangeWitness ==
    \E k \in DOMAIN task : task[k].pc = "delay" /\ k \in changed

\* C3: timer stability.  A key tracked before and after a step keeps its job
\* ID; a timer is created exactly when a key enters scheduledJobs, with an ID
\* no tracked job has, and an armed timer goes away only by firing or with
\* its key leaving scheduledJobs, which always takes the timer along.
TimerStability ==
    [][/\ \A k \in DOMAIN scheduledJobs \cap DOMAIN scheduledJobs' :
             scheduledJobs'[k] = scheduledJobs[k]
       /\ \A id \in DOMAIN timers' \ DOMAIN timers :
             /\ id \notin Range(scheduledJobs)
             /\ timers'[id] \in DOMAIN scheduledJobs' \ DOMAIN scheduledJobs
             /\ scheduledJobs'[timers'[id]] = id
       /\ \A k \in DOMAIN scheduledJobs' \ DOMAIN scheduledJobs :
             /\ scheduledJobs'[k] \in DOMAIN timers' \ DOMAIN timers
             /\ \A k2 \in DOMAIN scheduledJobs' : k2 # k => scheduledJobs'[k2] # scheduledJobs'[k]
       /\ \A id \in DOMAIN timers \ DOMAIN timers' :
             \/ timers[id] \in DOMAIN task' \ DOMAIN task
             \/ timers[id] \notin DOMAIN scheduledJobs'
       /\ \A k \in DOMAIN scheduledJobs \ DOMAIN scheduledJobs' :
             scheduledJobs[k] \notin DOMAIN timers'
       /\ \A id \in DOMAIN timers :
             timers[id] \in DOMAIN scheduledJobs /\ scheduledJobs[timers[id]] = id]_vars

\* a bucket whose servers a reconcile changed still has its timer armed
StableTimerWitness ==
    \E k \in changed :
        k \in DOMAIN scheduledJobs /\ scheduledJobs[k] \in DOMAIN timers
                                   /\ timers[scheduledJobs[k]] = k

\* the step that ends UpdateEvents
ReconcileStep == upc = "fetching" /\ upc' = "idle"

ConflictResolution ==
    rcOut.done =>
        LET out == rcOut.resolved
            SameGroup(c, d) == d.server = c.server /\ d.time = c.time /\ d.zone = c.zone
        IN  /\ \A c \in SeqSet(rcIn) :
                  /\ Cardinality({i \in 1..Len(out) : SameGroup(c, out[i])}) = 1
                  /\ \A i \in 1..Len(out) :
                        SameGroup(c, out[i]) =>
                           out[i].type = IF \E d \in SeqSet(rcIn) : SameGroup(c, d) /\ d.type = "wipe"
                                         THEN "wipe" ELSE "restart"
                  /\ Cardinality({i \in 1..Len(rcIn) : SameGroup(c, rcIn[i])}) = 1
                        => c \in SeqSet(out)
            /\ \A i \in 1..Len(out) : out[i] \in SeqSet(rcIn)

\* a restart listed before a wipe of the same server and time, and one other
\* event alone in its group, have been resolved
ConflictResolvedWitness ==
    /\ rcOut.done
    /\ Len(rcIn) = 3 /\ Len(rcOut.resolved) = 2
    /\ \E i, j \in 1..3 :
          /\ i < j
          /\ ConflictKey(rcIn[i]) = ConflictKey(rcIn[j])
          /\ rcIn[i].type = "restart" /\ rcIn[j].type = "wipe"

\* no server twice in an event list
ServersDistinct(evs) ==
    \A i, j \in 1..Len(evs) : i # j => evs[i].server # evs[j].server

\* C6 as claimed: the timeline holds at most one event per server and minute,
\* so no bucket and no batch lists a server twice.
OneEventPerServerMinute ==
    /\ \A i, j \in 1..Len(events) :
          i # j => ~(events[i].server = events[j].server
                     /\ Truncate(events[i].time) = Truncate(events[j].time))
    /\ \A k \in DOMAIN jobEvents : ServersDistinct(jobEvents[k])
    /\ \A k \in DOMAIN task : ServersDistinct(task[k].snap)

\* C7 as claimed: while an install rewrites the Rust tree of a branch, no sync
\* worker copies from the tree of that branch.
NoCopyDuringInstall ==
    \A i \in Installers :
        inst[i].pc = "installing" =>
            \A k \in DOMAIN task : \A j \in DOMAIN task[k].workers :
                task[k].workers[j] = "rsyncRust"
                    => SyncBranch(task[k].snap[j].server) # inst[i].branch

\* the steps of a batch, numbered in their order
StepNo(kind) ==
    CASE kind = "stop" -> 1 [] kind = "sync" -> 2 [] kind = "wipe" -> 3
      [] kind = "hook" -> 4 [] kind = "start" -> 5 [] OTHER -> 0
\* the places of a trace where a step of the batch (not a notification) is
StepsIn(tr) == {i \in 1..Len(tr) : StepNo(tr[i][1]) > 0}
\* the places of a trace where the kind is one of kinds
Calls(tr, kinds) == {i \in 1..Len(tr) : tr[i][1] \in kinds}

\* C8: step order.  In the trace of a batch the steps stand in the order
\* stop, sync, wipe, hook, start; the first step is the stop script; stop,
\* sync, hook and start occur at most once, the scripts with the paths of the
\* whole batch in batch order; and while a sync worker is still running
\* neither the sync step has returned nor a later step has begun.
BatchStepOrder ==
    \A k \in DOMAIN task :
        LET t == task[k]
            tr == t.trace
        IN  /\ \A i, j \in StepsIn(tr) : i < j => StepNo(tr[i][1]) <= StepNo(tr[j][1])
            /\ \A i \in StepsIn(tr) : (\A j \in StepsIn(tr) : i <= j) => tr[i][1] = "stop"
            /\ \A kind \in {"stop", "sync", "hook", "start"} : Cardinality(Calls(tr, {kind})) <= 1
            /\ \A i \in Calls(tr, {"stop", "hook", "start"}) : tr[i][2] = Paths(t.snap)
            /\ t.workers # <<>> => Calls(tr, {"stop"}) # {}
            /\ (\E j \in DOMAIN t.workers : t.workers[j] \notin {"done", "failed"})
                  => Calls(tr, {"sync", "wipe", "hook", "start"}) = {}

\* a batch of two servers, one of them wiped, has run all five steps
BatchCompleteWitness ==
    \E k \in DOMAIN task :
        /\ task[k].pc = "clear" /\ task[k].result = "ok"
        /\ Len(task[k].snap) = 2
        /\ [i \in 1..Len(task[k].trace) |-> task[k].trace[i][1]] =
              <<"SendInfo", "stop", "sync", "wipe", "hook", "start", "SendSuccess">>

\* C9: abort on failure.  After a stop call that did not succeed there is no
\* sync, wipe, hook or start; once a sync worker has failed there is no wipe,
\* hook or start; after a start call that did not succeed there is no
\* success; in each case the batch ends with the error notification and
\* returns an error.
AbortOnFailure ==
    \A k \in DOMAIN task :
        LET t == task[k]
            tr == t.trace
            Failed(kind) == \E i \in Calls(tr, {kind}) : tr[i][3] # "ok"
            Aborted == /\ t.pc = "clear" /\ t.result = "err"
                       /\ tr[Len(tr)][1] = "SendError"
                       /\ Calls(tr, {"SendSuccess"}) = {}
        IN  /\ Failed("stop") =>
                  /\ Aborted
                  /\ t.workers = <<>>
                  /\ Calls(tr, {"sync", "wipe", "hook", "start"}) = {}
            /\ (\E j \in DOMAIN t.workers : t.workers[j] = "failed") =>
                  /\ t.pc \in {"syncing", "clear"}
                  /\ t.pc = "clear" => Aborted
                  /\ Calls(tr, {"wipe", "hook", "start"}) = {}
            /\ Failed("start") => Aborted

\* a batch has ended after the sync of one of its two servers failed
SyncAbortWitness ==
    \E k \in DOMAIN task :
        /\ task[k].pc = "clear" /\ task[k].result = "err"
        /\ \E i, j \in DOMAIN task[k].workers :
              task[k].workers[i] = "failed" /\ task[k].workers[j] = "done"

\* C10: the hook is not fatal.  After a hook call that failed the batch goes
\* on to the start step: when it has ended, startServers was called with the
\* paths of the whole batch, and if that call succeeded the batch returned
\* success and its last notification is the complete notification.
HookFailureNotFatal ==
    \A k \in DOMAIN task :
        LET t == task[k]
            tr == t.trace
        IN  (\E i \in Calls(tr, {"hook"}) : tr[i][3] = "failed") =>
                /\ t.pc \in {"start", "clear"}
                /\ t.pc = "clear" =>
                      /\ \E i \in Calls(tr, {"start"}) : tr[i][2] = Paths(t.snap)
                      /\ \A i \in Calls(tr, {"start"}) :
                            tr[i][3] = "ok" =>
                               /\ t.result = "ok"
                               /\ tr[Len(tr)] = <<"SendSuccess", "Batch Event Complete", "ok">>

\* a batch whose hook failed has started its servers and returned success
HookFailedWitness ==
    \E k \in DOMAIN task :
        /\ task[k].pc = "clear" /\ task[k].result = "ok"
        /\ \E i \in Calls(task[k].trace, {"hook"}) : task[k].trace[i][3] = "failed"

\* C11: the wipe step of a mixed batch.  Every wipeServerData call is for a
\* server with a wipe event in the batch; once the wipe step is over each
\* such server has been wiped and no server that is in the batch for a
\* restart only; the stop, sync, hook and start calls and the sync workers
\* cover every server of the batch.
WipeOnlyWipeServers ==
    \A k \in DOMAIN task :
        LET t == task[k]
            tr == t.trace
            wiped == {tr[i][2] : i \in Calls(tr, {"wipe"})}
            wipeSet == {t.snap[i].server : i \in {j \in 1..Len(t.snap) : t.snap[j].type = "wipe"}}
        IN  /\ wiped \subseteq wipeSet
            /\ Calls(tr, {"hook", "start"}) # {} => wiped = wipeSet
            /\ \A i \in Calls(tr, {"stop", "sync", "hook", "start"}) :
                  /\ Len(tr[i][2]) = Len(t.snap)
                  /\ \A j \in 1..Len(t.snap) : tr[i][2][j] = t.snap[j].server
            /\ t.workers # <<>> => DOMAIN t.workers = 1..Len(t.snap)

\* a batch of one wipe server and one restart server has run to its end
MixedBatchWitness ==
    \E k \in DOMAIN task :
        /\ task[k].pc = "clear" /\ task[k].result = "ok"
        /\ \E i, j \in 1..Len(task[k].snap) :
              /\ task[k].snap[i].type = "wipe" /\ task[k].snap[j].type = "restart"
              /\ task[k].snap[i].server # task[k].snap[j].server
              /\ \E c \in Calls(task[k].trace, {"wipe"}) :
                    task[k].trace[c][2] = task[k].snap[i].server

\* C12 as claimed: a refresh in which the fetch of a server fails alters
\* nothing that is scheduled for that server: its events that are still to
\* come stay in the timeline and in the list of their bucket.
FailedFetchAltersNothing ==
    [][ReconcileStep =>
         \A s \in refresh'.failed : \A e \in SeqSet(events) :
             (e.server = s /\ After(e.time, fetchNow)) =>
                 /\ e \in SeqSet(events')
                 /\ (TimeKey(e) \in DOMAIN jobEvents /\ e \in SeqSet(jobEvents[TimeKey(e)]))
                       => /\ TimeKey(e) \in DOMAIN jobEvents'
                          /\ e \in SeqSet(jobEvents'[TimeKey(e)])]_vars

PastGroupsGetNoBucket ==
    [][\A k \in (DOMAIN scheduledJobs' \ DOMAIN scheduledJobs)
                \cup (DOMAIN jobEvents' \ DOMAIN jobEvents)
                \cup {timers'[id] : id \in DOMAIN timers' \ DOMAIN timers} :
          ~(ScheduleTime(k) < Truncate(now))]_vars

\* the last reconcile ran in a later minute than an event of its timeline,
\* and the event has no bucket
PastGroupWitness ==
    /\ refresh.count >= 1 /\ upc = "idle"
    /\ \E e \in SeqSet(events) :
          /\ Truncate(e.time) < Truncate(refresh.at)
          /\ TimeKey(e) \notin DOMAIN scheduledJobs \cup DOMAIN jobEvents

\* C16 as claimed: the events of one minute are one bucket with one timer and
\* run as one batch: no two buckets, timers or tasks are kept for one minute.
SameMinuteOneBucket ==
    /\ \A k1, k2 \in DOMAIN scheduledJobs \cup DOMAIN jobEvents \cup DOMAIN task :
          ScheduleTime(k1) = ScheduleTime(k2) => k1 = k2
    /\ \A id1, id2 \in DOMAIN timers :
          ScheduleTime(timers[id1]) = ScheduleTime(timers[id2]) => id1 = id2

InProgress(i) == inst[i].pc \in {"marked", "locked", "installing", "unmark"}

\* C18: re-entrant install suppression.  No two installs of one tree and one
\* branch are in progress together; a call goes on to install only a branch
\* of which no install is in progress; and a call that is skipped returns at
\* once with no error: it takes no lock, changes no mark and no tree, and an
\* install of that tree is in progress.
ReentrantInstallSuppressed ==
    [][/\ \A i, j \in Installers :
             (i # j /\ InProgress(i) /\ InProgress(j) /\ inst[i].fn = inst[j].fn)
                 => inst[i].branch # inst[j].branch
       /\ \A i \in Installers :
             (inst[i].pc \in {"idle", "calling"} /\ inst'[i].pc = "marked") =>
                 ~\E j \in Installers \ {i} : /\ InProgress(j)
                                              /\ inst[j].fn = inst'[i].fn
                                              /\ inst[j].branch = inst'[i].branch
       /\ \A i \in Installers :
             (inst'[i] # inst[i] /\ inst'[i].last = "skipped") =>
                 /\ inst'[i].pc = "idle" /\ ~inst'[i].sentError
                 /\ UNCHANGED <<rustVars, carbonVars>>
                 /\ \E j \in Installers \ {i} : InProgress(j) /\ inst[j].fn = inst'[i].fn]_vars

\* a call has been skipped and the install that made it skip is still rewriting
\* its tree
SkippedCallWitness ==
    \E i, j \in Installers :
        /\ i # j
        /\ inst[i].pc = "idle" /\ inst[i].last = "skipped"
        /\ inst[j].pc = "installing" /\ inst[j].fn = inst[i].fn

TreeOf(fn) == IF fn = "rust" THEN rustTree ELSE carbonTree

\* C20 as claimed: a failed install leaves the branch as if no install had
\* run: its lock is free and its mark removed once the call has returned, the
\* error was notified, and an ensure call that follows runs the install again:
\* no ensure call returns "already installed" for a tree a failed install left.
FailedInstallIsRetried ==
    [][/\ \A i \in Installers :
             (inst'[i].pc = "idle" /\ inst'[i].last = "failed") =>
                 /\ inst'[i].sentError
                 /\ \A b \in Branches : branchLocks'[b] # i /\ carbonBranchLocks'[b] # i
                 /\ installMutex' # i
       /\ \A i \in Installers :
             (inst'[i] # inst[i] /\ inst'[i].last = "present") =>
                 TreeOf(inst'[i].fn)[inst'[i].branch] # "broken"]_vars
\* the supervisor takes a config tick out of the channel
ConfigTickTaken == run = "select" /\ configTicker /\ ~configTicker'

\* C21: on a config tick whose reload worked, a calendar refresh is started
\* if the set of server paths differs from the one of the previous config;
\* otherwise it is started if and only if at least one server is configured
\* and either no refresh has succeeded yet or the time since the last one is
\* at least check_interval (exactly the interval counts as elapsed).
RefreshDecisionOnTick ==
    [][(ConfigTickTaken /\ lastTick' = "loaded") =>
          (run' = "updating" <=>
              \/ PathSet(config') # PathSet(config)
              \/ /\ Len(config'.servers) > 0
                 /\ \/ lastUpdate = 0
                    \/ clock - lastUpdate >= config'.checkInterval)]_vars

\* a refresh started by a tick exactly check_interval after the last refresh
RefreshAtIntervalWitness ==
    /\ run = "updating"
    /\ lastTick = "loaded"
    /\ lastUpdate > 0
    /\ config.checkInterval > 0
    /\ clock - lastUpdate = config.checkInterval

ChangeIsPathSetDifference ==
    arg.fn = "detectServerChanges" =>
        (res.value <=> (arg.old # NilConfig /\ PathSet(arg.new) # PathSet(arg.old)))

\* the server lists differ and the path sets do not: no change reported
SamePathsWitness ==
    /\ arg.fn = "detectServerChanges"
    /\ arg.old # NilConfig
    /\ arg.old.servers # arg.new.servers
    /\ PathSet(arg.old) = PathSet(arg.new)
    /\ res.value = FALSE

\* C24: a restart or wipe event without RRULE whose start is exactly
\* now + lookahead_hours is left out of the result, and one whose start is
\* strictly after now and strictly before now + lookahead_hours is in it.
LookaheadBoundary ==
    (/\ arg.fn = "GetUpcomingEvents"
     /\ arg.ev.summary \in {"restart", "wipe"}
     /\ arg.ev.startOk) =>
        /\ arg.ev.start = arg.now + arg.hours * Hour => res.value = <<>>
        /\ (arg.now < arg.ev.start /\ arg.ev.start < arg.now + arg.hours * Hour) =>
              res.value = <<[type |-> arg.ev.summary, start |-> arg.ev.start]>>

\* a wipe starting exactly at the end of the window, left out
WindowEndWitness ==
    /\ arg.fn = "GetUpcomingEvents"
    /\ arg.ev.summary = "wipe"
    /\ arg.ev.startOk
    /\ arg.ev.start = arg.now + arg.hours * Hour
    /\ res.value = <<>>

\* SyncServers has returned in this task
SyncReturned(t) == \E i \in DOMAIN t.trace : t.trace[i][1] = "sync"

\* C25: SyncServers starts one worker per server of the batch and returns
\* only when every worker has finished, whatever the others did; it returns
\* nil iff every worker succeeded and else one error that names every
\* failed server.
SyncWaitsForAllAndNamesFailures ==
    \A k \in DOMAIN task :
        LET t == task[k]
        IN  /\ t.pc = "syncing" => DOMAIN t.workers = 1..Len(t.snap)
            /\ SyncReturned(t) =>
                  /\ DOMAIN t.workers = 1..Len(t.snap)
                  /\ \A j \in DOMAIN t.workers : t.workers[j] \in {"done", "failed"}
                  /\ t.syncErr = {} <=> \A j \in DOMAIN t.workers : t.workers[j] = "done"
                  /\ \A j \in DOMAIN t.workers :
                        t.workers[j] = "failed" => t.snap[j].server \in t.syncErr
                  /\ \A s \in t.syncErr : \E j \in DOMAIN t.workers :
                        t.workers[j] = "failed" /\ t.snap[j].server = s

\* both servers of a batch failed to sync and the error names both
BothFailedWitness ==
    \E k \in DOMAIN task :
        /\ SyncReturned(task[k])
        /\ Len(task[k].snap) = 2
        /\ \A j \in DOMAIN task[k].workers : task[k].workers[j] = "failed"
        /\ Cardinality(task[k].syncErr) = 2

\* C26: once the context is cancelled the supervisor loop starts no calendar
\* refresh, no update check and no map-prep pass.
NoNewWorkAfterShutdown ==
    [][ctx = "cancelled" =>
          /\ run # "updating" => run' # "updating"
          /\ run # "checking" => run' # "checking"
          /\ \A g \in MapGoroutines : mapPrep[g] = "none" => mapPrep'[g] = "none"]_vars

\* the passes past the in-progress check that have not ended
PastCheck == {g \in MapGoroutines : mapPrep[g] \in {"marked", "script", "end"}}

\* C27: at most one map-prep pass is past the in-progress check; a pass that
\* comes to the check while another is past it does not get past it (it
\* returns without the script), and the flag is set exactly while a pass is
\* past the check: every end of a pass clears it.
MapPrepNeverOverlaps ==
    /\ Cardinality(PastCheck) <= 1
    /\ mapGenInProgress <=> PastCheck # {}

\* one pass runs the script while another stands at the check
SecondPassAtCheckWitness ==
    \E g, h \in MapGoroutines : mapPrep[g] = "script" /\ mapPrep[h] = "check"

MutexHeldByUpdate == upc # "idle"
\* UpdateEvents is in its loop of calendar.FetchCalendar calls
FetchInFlight == upc = "fetching"

\* C29: the scheduler mutex is never held by a goroutine that is fetching a
\* calendar, delivering a notification or running the batch executor.  (A
\* timer task locks and unlocks within TaskMark and within TaskClear and
\* holds nothing while its batch runs.)
MutexOnlyForMaps == ~(MutexHeldByUpdate /\ FetchInFlight)

\* C30: the timer task clears the executing mark of its key on every return
\* path, while no refresh holds the scheduler mutex: a task that ends leaves
\* its key unmarked, whether its snapshot was empty or its batch returned
\* with or without an error, and no key is marked without a task.
MarkClearedOnEveryReturn ==
    [][/\ executingJobs' \subseteq DOMAIN task'
       /\ \A k \in DOMAIN task \ DOMAIN task' :
             /\ upc = "idle"
             /\ k \notin executingJobs'
             /\ \/ task[k].snap = <<>> /\ task[k].result = "none"
                \/ task[k].snap # <<>> /\ task[k].result \in {"ok", "err"}]_vars

\* a task that found no events for its key is about to return, its key marked
EmptySnapshotWitness ==
    \E k \in DOMAIN task :
        task[k].pc = "clear" /\ task[k].snap = <<>> /\ k \in executingJobs

\* C31: a batch that aborts is consumed and not retried.  The step in which
\* its task ends leaves the timers, the job IDs and the event lists of all
\* buckets as they are, no timer is left for its key, and no step arms a
\* timer for a key whose minute has come (so the key cannot fire again).
AbortedBatchNotRetried ==
    [][/\ \A k \in DOMAIN task \ DOMAIN task' :
             task[k].result = "err" =>
                 /\ timers' = timers
                 /\ scheduledJobs' = scheduledJobs
                 /\ jobEvents' = jobEvents
                 /\ \A id \in DOMAIN timers' : timers'[id] # k
       /\ \A id \in DOMAIN timers' \ DOMAIN timers :
             /\ After(ScheduleTime(timers'[id]), now)
             /\ timers'[id] \notin DOMAIN task]_vars

\* a batch has aborted and the bucket of a later minute has its timer armed
AbortWithFutureBucketWitness ==
    \E k \in DOMAIN task :
        /\ task[k].pc = "clear" /\ task[k].result = "err"
        /\ \E k2 \in DOMAIN scheduledJobs :
              /\ After(ScheduleTime(k2), now)
              /\ scheduledJobs[k2] \in DOMAIN timers
              /\ timers[scheduledJobs[k2]] = k2

\* the branch whose tree an acquisition with argument b is about
TreeBranch(b) == IF b = "" THEN "main" ELSE b

\* C32: a reader and a writer of the same branch of a tree get one and the
\* same lock of the registry, the empty branch counting as main for both.
SameBranchSameLock ==
    (arg.fn = "getBranchLock" /\ TreeBranch(arg.reader) = TreeBranch(arg.writer)) =>
        res.value[1] = res.value[2]

\* C33: the values the core uses are those of the config loaded last: the
\* scheduler's lookahead_hours (refreshes), event_delay and webhook (batches)
\* are the ones of d.config, from which check_interval, map_generation_hours
\* and the server list are read.
CoreUsesLoadedConfig ==
    scheduler # NilScheduler =>
        /\ scheduler.lookaheadHours = config.lookaheadHours
        /\ scheduler.eventDelay = config.eventDelay
        /\ scheduler.webhookURL = config.discordWebhook

\* the steps whose failure fails the batch, done without an error in tr
StepSucceeded(tr, kind) == \E i \in Calls(tr, {kind}) : tr[i][3] = "ok"

\* C34: a batch sends exactly one starting notification, before the stop
\* script is called, and after its last step exactly one terminal one:
\* "Batch Event Complete" iff stop, sync, wipe and start all succeeded, else
\* "Batch Event Failed" right after the step that aborted the batch.
OneStartOneTerminalNotification ==
    \A k \in DOMAIN task :
        LET t == task[k]
            tr == t.trace
            starting == Calls(tr, {"SendInfo"})
            terminal == Calls(tr, {"SendError", "SendSuccess"})
        IN  /\ starting = IF t.pc \in {"fired", "delay"} THEN {} ELSE {1}
            /\ starting # {} => tr[1][2] = "Batch Event Starting"
            /\ terminal = IF t.pc = "clear" /\ t.snap # <<>> THEN {Len(tr)} ELSE {}
            /\ \A i \in terminal :
                  IF /\ StepSucceeded(tr, "stop") /\ StepSucceeded(tr, "sync")
                     /\ StepSucceeded(tr, "start")
                     /\ \A j \in Calls(tr, {"wipe"}) : tr[j][3] = "ok"
                  THEN tr[i] = <<"SendSuccess", "Batch Event Complete", "ok">>
                  ELSE /\ tr[i] = <<"SendError", "Batch Event Failed", "ok">>
                       /\ tr[i - 1][1] \in {"stop", "sync", "wipe", "start"}
                       /\ tr[i - 1][3] # "ok"

\* a batch whose start script failed: starting first, failed last
StartFailedNotifiedWitness ==
    \E k \in DOMAIN task :
        LET tr == task[k].trace
        IN  /\ task[k].pc = "clear"
            /\ Len(tr) >= 3
            /\ tr[1][1] = "SendInfo"
            /\ tr[Len(tr) - 1][1] = "start"
            /\ tr[Len(tr)][1] = "SendError"

\* C35: no due batch is lost.  A task whose bucket held a non-empty event
\* list when its timer fired goes on, once it has the mutex, to the batch
\* executor with a non-empty list, whatever a refresh did in between.
DueBatchExecuted ==
    [][\A k \in DOMAIN task \cap DOMAIN task' :
          (task[k].pc = "fired" /\ task'[k].pc # "fired" /\ task[k].due) =>
              task'[k].pc = "delay" /\ task'[k].snap # <<>>]_vars

\* C36: no event is executed early.  Every event of the list a timer task
\* hands to the batch executor has its scheduled start behind it: the start
\* is not After the clock when the task holds its snapshot.
NoEventExecutedEarly ==
    \A k \in DOMAIN task :
        \A i \in 1..Len(task[k].snap) : ~After(task[k].snap[i].time, now)

\* the task is between its stop script and the return of its start script
Processing(t) == t.pc \in {"sync", "syncing", "wipe", "hook", "start"}

\* C37: no server is processed by two batches at the same time.  Two tasks
\* that are both between stop and start have no server in common.
NoServerInTwoBatches ==
    \A k1, k2 \in DOMAIN task :
        (k1 # k2 /\ Processing(task[k1]) /\ Processing(task[k2])) =>
            ServersOf(task[k1].snap) \cap ServersOf(task[k2].snap) = {}

\* C38: whenever the scheduler mutex is free, scheduledJobs and jobEvents
\* have the same key set and every key in executingJobs has a timer handle
\* in scheduledJobs.
MapsAgreeWhenMutexFree ==
    upc = "idle" =>
        /\ DOMAIN scheduledJobs = DOMAIN jobEvents
        /\ executingJobs \subseteq DOMAIN scheduledJobs

\* the locks goroutine i holds
Holds(i) == installMutex = i \/ \E b \in Branches : branchLocks[b] = i

\* C39: deadlock freedom.  A refresh that took the scheduler mutex gives it
\* back; a timer task that fired ends with its executing mark removed; an
\* install that set its installing mark ends with the mark removed and
\* holding neither the branch lock nor the install mutex.
EveryOperationFinishes ==
    /\ (upc = "fetching") ~> (upc = "idle")
    /\ (LiveKey \in DOMAIN task) ~> (LiveKey \notin DOMAIN task /\ LiveKey \notin executingJobs)
    /\ \A i \in Installers :
          (inst[i].pc = "marked") ~>
              (inst[i].pc = "idle" /\ ~Holds(i) /\ LiveBranch[i] \notin installingBranches)

\* everything waits at once: the refresh holds the scheduler mutex, the fired
\* task waits for it, one install holds the install mutex and the other,
\* holding its branch lock, waits for it
AllWaitingWitness ==
    /\ upc = "fetching"
    /\ LiveKey \in DOMAIN task /\ task[LiveKey].pc = "fired"
    /\ installMutex = "i2"
    /\ inst["i1"].pc = "locked" /\ branchLocks["main"] = "i1"

\* C40: after a reload that removed a server, the refresh called with the
\* new server list leaves no event of a server outside the list in the
\* timeline or in the event list of a bucket that is not executing, and no
\* task that takes its event list afterwards gets an event of such a server.
RemovedServerGone ==
    [][/\ ReconcileStep =>
            /\ \A e \in SeqSet(events') : e.server \in refresh'.servers
            /\ \A k \in DOMAIN jobEvents' \ executingJobs' :
                  ServersOf(jobEvents'[k]) \subseteq refresh'.servers
       /\ \A k \in DOMAIN task \cap DOMAIN task' :
            (task[k].pc = "fired" /\ task'[k].pc # "fired" /\ refresh.count >= 1) =>
                ServersOf(task'[k].snap) \subseteq refresh.servers]_vars

====
